---- MODULE Spec2Model ----
(***************************************************************************)
(* The campaign dashboard of src/streamlit.py as a state machine.          *)
(*                                                                         *)
(* Streamlit re-executes the whole script on every interaction, so every   *)
(* action below is one complete run of the script (RunScript) on the       *)
(* widget state the interaction leaves behind: the uploader's file, the    *)
(* four select boxes, the date range and the button.  The state holds the  *)
(* widget state, the st.cache_data cache of clean_data, and what the last  *)
(* run computed and displayed.                                             *)
(*                                                                         *)
(* Data. A cell of the CSV is its text.  pandas' conversions are modelled  *)
(* by what they do on a vocabulary of texts: to_datetime and to_numeric    *)
(* are tables from text to value, a number is held in tenths so that       *)
(* astype(int) has something to truncate, a timestamp is held in half-days *)
(* so that .dt.date has a time of day to discard.                          *)
(***************************************************************************)
EXTENDS Integers, Sequences, FiniteSets, TLC

VARIABLES uploaded_file, cache, widgets, df_original, df_filtered,
          shown, summary_text, charts

vars == <<uploaded_file, cache, widgets, df_original, df_filtered,
          shown, summary_text, charts>>

(***************************************************************************)
(* Bounds of the model.                                                    *)
(***************************************************************************)
\* rows of a file in the cleaning scenarios
MaxCleanRows == 2
\* rows of a file in the filtering scenarios
MaxRows == 2
\* rows of a file in the aggregation scenarios
MaxAggRows == 2
\* rows of a file in the top-locations scenarios
MaxTopRows == 7

\* nlargest(5), line 231
TopN == 5

(***************************************************************************)
(* Values.                                                                 *)
(***************************************************************************)
\* the missing value of an object column: read_csv turns an empty cell (and
\* the texts "nan", "NaN", "NA", ...) into NaN, so no cell text survives as
\* the string "nan"
NaN == "nan"

NaValues == {"", "nan", "NaN", "NA"}

read_cell(text) == IF text \in NaValues THEN NaN ELSE text

\* pandas' elementwise ==: a missing value equals nothing, itself included
eq(a, b) == a # NaN /\ b # NaN /\ a = b

\* NaT, the missing timestamp; timestamps count half-days, 2*day + half
NaT == -1

RequiredColumns ==
    {"Date", "Platform", "Engagements", "Sentiment", "Media Type", "Location"}

CategoricalColumns == {"Platform", "Sentiment", "Media Type", "Location"}

\* Python's order on str, on the categorical vocabulary of the model
StrOrder ==
    <<"Berlin", "Facebook", "Image", "Instagram", "Jakarta", "Lagos", "Lima",
      "Negative", "Oslo", "Paris", "Positive", "Video">>

StrRank(s) == CHOOSE i \in 1..Len(StrOrder) : StrOrder[i] = s

\* a < b of two values of a list handed to sorted()
StrLess(a, b) == StrRank(a) < StrRank(b)

Min(a, b) == IF a <= b THEN a ELSE b

(***************************************************************************)
(* pd.to_datetime(errors='coerce'): the timestamp of a text, NaT for a     *)
(* text that is no date and for a missing cell.                            *)
(***************************************************************************)
to_datetime(text) ==
    CASE text = "2024-01-01 00:00" -> 2
      [] text = "2024-01-01 18:30" -> 3
      [] text = "2024-01-02 00:00" -> 4
      [] OTHER -> NaT

\* Series.dt.date / Timestamp.date(): the calendar day, time of day dropped
dt_date(ts) == IF ts = NaT THEN NaT ELSE ts \div 2

(***************************************************************************)
(* pd.to_numeric(errors='coerce'): a number (in tenths), inf, or NaN.      *)
(***************************************************************************)
Num(t) == [kind |-> "num", tenths |-> t]
NumNaN == [kind |-> "nan", tenths |-> 0]
NumInf == [kind |-> "inf", tenths |-> 0]

to_numeric(text) ==
    CASE text = "10" -> Num(100)
      [] text = "7" -> Num(70)
      [] text = "-5" -> Num(-50)
      [] text = "3.7" -> Num(37)
      [] text = "-0.5" -> Num(-5)
      [] text = "inf" -> NumInf
      [] OTHER -> NumNaN

fillna0(x) == IF x.kind = "nan" THEN Num(0) ELSE x

\* (a variant of astype_int that rounds to the nearest integer)
astype_int_round(x) == (x.tenths + 5) \div 10

\* astype(int) of a finite float: truncation toward zero
astype_int(x) ==
    IF x.tenths >= 0 THEN x.tenths \div 10 ELSE -((-x.tenths) \div 10)

(***************************************************************************)
(* Data frames.  None is the value clean_data returns when it has no       *)
(* dataset; EmptyFrame is pd.DataFrame().  A row maps its columns, and     *)
(* "index" (its label: the position of the row in the file), to values.    *)
(***************************************************************************)
None == [none |-> TRUE, columns |-> {}, rows |-> <<>>]

EmptyFrame == [none |-> FALSE, columns |-> {}, rows |-> <<>>]

Frame(cols, rows) == [none |-> FALSE, columns |-> cols, rows |-> rows]

\* a file of the uploader: its bytes decode or not, its header, its rows
File(utf8, header, rows) == [utf8 |-> utf8, header |-> header, rows |-> rows]

NoFile == [utf8 |-> TRUE, header |-> {"<none>"}, rows |-> <<>>]

\* pd.read_csv: one row per line, empty cells missing, labelled 0, 1, ...
read_csv(file) ==
    Frame(file.header,
          [i \in 1..Len(file.rows) |->
              [c \in file.header \cup {"index"} |->
                  IF c = "index" THEN i - 1 ELSE read_cell(file.rows[i][c])]])

\* df.dropna(subset=['Date']): the rows whose Date is not NaT, in order
dropna_Date(rows) ==
    LET keep(r) == r["Date"] # NaT IN SelectSeq(rows, keep)

(***************************************************************************)
(* clean_data, lines 68-91.  value is what it returns, error whether it    *)
(* called st.error.                                                        *)
(***************************************************************************)
CleanFailure == [value |-> None, error |-> TRUE]

clean_data(file) ==
    IF file = NoFile THEN [value |-> None, error |-> FALSE]
    ELSE IF ~file.utf8 THEN CleanFailure                \* UnicodeDecodeError
    ELSE LET df == read_csv(file) IN
    IF "Date" \notin df.columns THEN CleanFailure       \* KeyError: 'Date'
    ELSE IF "Engagements" \notin df.columns THEN CleanFailure
    ELSE LET numeric == [i \in 1..Len(df.rows) |->
                            fillna0(to_numeric(df.rows[i]["Engagements"]))] IN
    \* astype(int) raises on a non-finite value: the except branch
    IF \E i \in 1..Len(df.rows) : numeric[i].kind = "inf" THEN CleanFailure
    ELSE LET typed == [i \in 1..Len(df.rows) |->
                          [df.rows[i] EXCEPT
                              !["Date"] = to_datetime(@),
                              !["Engagements"] = astype_int(numeric[i])]] IN
    [value |-> Frame(df.columns, dropna_Date(typed)), error |-> FALSE]

(***************************************************************************)
(* Series helpers.                                                         *)
(***************************************************************************)
\* df[c]: the column as a sequence of values
column(rows, c) == [i \in 1..Len(rows) |-> rows[i][c]]

RECURSIVE SumSeq(_)
SumSeq(xs) == IF xs = <<>> THEN 0 ELSE Head(xs) + SumSeq(Tail(xs))

\* Series.count of one value (a missing value is never counted)
CountOf(vals, v) == Cardinality({i \in 1..Len(vals) : eq(vals[i], v)})

\* the distinct non-missing values, in the order they first occur
RECURSIVE first_seen(_)
first_seen(vals) ==
    IF vals = <<>> THEN <<>>
    ELSE LET rest == first_seen(SubSeq(vals, 1, Len(vals) - 1))
             v == vals[Len(vals)]
         IN IF v = NaN \/ \E i \in 1..Len(rest) : rest[i] = v
            THEN rest ELSE Append(rest, v)

\* one step of a stable sort by descending n: x goes after every entry
\* whose n is at least its own
RECURSIVE insert_desc(_, _)
insert_desc(sorted, x) ==
    IF sorted = <<>> THEN <<x>>
    ELSE IF Head(sorted).n >= x.n
         THEN <<Head(sorted)>> \o insert_desc(Tail(sorted), x)
         ELSE <<x>> \o sorted

\* sort_values(ascending=False), ties kept in their incoming order
RECURSIVE sort_desc(_)
sort_desc(entries) ==
    IF entries = <<>> THEN <<>>
    ELSE insert_desc(sort_desc(SubSeq(entries, 1, Len(entries) - 1)),
                     entries[Len(entries)])

\* Series.value_counts(): (value, n) for each distinct non-missing value,
\* by descending n, equal counts in first-seen order
value_counts(vals) ==
    LET seen == first_seen(vals) IN
    sort_desc([i \in 1..Len(seen) |->
                  [value |-> seen[i], n |-> CountOf(vals, seen[i])]])

\* (a variant of nlargest that takes the last k entries)
nlargest_tail(series, k) ==
    SubSeq(series, Len(series) - Min(k, Len(series)) + 1, Len(series))

\* Series.nlargest(k): the first k entries of the descending order
nlargest(series, k) == SubSeq(series, 1, Min(k, Len(series)))

\* the keys of a groupby: sorted ascending, missing keys dropped
RECURSIVE sorted_strs(_)
sorted_strs(S) ==
    IF S = {} THEN <<>>
    ELSE LET m == CHOOSE x \in S : \A y \in S : y = x \/ StrLess(x, y)
         IN <<m>> \o sorted_strs(S \ {m})

\* df.groupby(c)['Engagements'].sum(): (value, n) per key, in key order, a
\* row whose key is missing belonging to no group (dropna=True)
groupby_sum(rows, c) ==
    LET keys == {rows[i][c] : i \in 1..Len(rows)} \ {NaN}
        order == sorted_strs(keys)
        members(k) == SelectSeq(rows, LAMBDA r : eq(r[c], k))
    IN [i \in 1..Len(order) |->
           [value |-> order[i],
            n |-> SumSeq(column(members(order[i]), "Engagements"))]]

\* Series.idxmax(): the label of the first maximum
idxmax(series) ==
    LET i == CHOOSE j \in 1..Len(series) :
                 /\ \A k \in 1..Len(series) : series[k].n <= series[j].n
                 /\ \A k \in 1..(j - 1) : series[k].n < series[j].n
    IN series[i].value

\* (a variant of mode that leaves the modes in first-seen order)
mode_first_seen(vals) ==
    LET seen == first_seen(vals)
        top(v) == \A i \in 1..Len(seen) : CountOf(vals, seen[i]) <= CountOf(vals, v)
    IN SelectSeq(seen, top)

\* Series.mode(): the most frequent non-missing values, sorted ascending;
\* empty when every value is missing
mode(vals) ==
    LET seen == first_seen(vals)
        best == {seen[i] : i \in {j \in 1..Len(seen) :
                    \A k \in 1..Len(seen) :
                        CountOf(vals, seen[k]) <= CountOf(vals, seen[j])}}
    IN sorted_strs(best)

\* df.groupby(df['Date'].dt.date)['Engagements'].sum(): per day, ascending
RECURSIVE sorted_ints(_)
sorted_ints(S) ==
    IF S = {} THEN <<>>
    ELSE LET m == CHOOSE x \in S : \A y \in S : x <= y
         IN <<m>> \o sorted_ints(S \ {m})

groupby_day_sum(rows) ==
    LET days == sorted_ints({dt_date(rows[i]["Date"]) : i \in 1..Len(rows)})
        members(d) == SelectSeq(rows, LAMBDA r : dt_date(r["Date"]) = d)
    IN [i \in 1..Len(days) |->
           [value |-> days[i],
            n |-> SumSeq(column(members(days[i]), "Engagements"))]]

(***************************************************************************)
(* generate_summary, lines 93-122.                                         *)
(***************************************************************************)
\* 'Tidak Tersedia', lines 101-110
NotAvailable == "Tidak Tersedia"

\* "" of line 96
SummaryEmpty ==
    [kind |-> "empty", top_platform |-> "", top_media_type |-> "",
     dominant_sentiment |-> "", top_location |-> ""]

\* "Gagal membuat ringkasan. Periksa kolom data Anda." of line 122
SummaryFailure ==
    [kind |-> "failure", top_platform |-> "", top_media_type |-> "",
     dominant_sentiment |-> "", top_location |-> ""]

\* no summary asked for in this run
NoSummary ==
    [kind |-> "none", top_platform |-> "", top_media_type |-> "",
     dominant_sentiment |-> "", top_location |-> ""]

\* df[c].mode()[0] if not df[c].empty else 'Tidak Tersedia': Series.empty
\* is "has no element", so the guard passes on a column of missing values
\* and [0] of the empty mode raises
mode_fact(vals) ==
    IF Len(vals) # 0
    THEN LET m == mode(vals) IN
         IF m = <<>> THEN [raises |-> TRUE, value |-> ""]
         ELSE [raises |-> FALSE, value |-> m[1]]
    ELSE [raises |-> FALSE, value |-> NotAvailable]

generate_summary(df) ==
    IF df.rows = <<>> THEN SummaryEmpty
    ELSE IF ~(CategoricalColumns \subseteq df.columns) THEN SummaryFailure
    ELSE LET platform_engagements == groupby_sum(df.rows, "Platform")
             top_platform == IF platform_engagements # <<>>
                             THEN idxmax(platform_engagements)
                             ELSE NotAvailable
             dominant_sentiment == mode_fact(column(df.rows, "Sentiment"))
             top_media_type == mode_fact(column(df.rows, "Media Type"))
             top_location == mode_fact(column(df.rows, "Location"))
         IN IF \/ dominant_sentiment.raises
               \/ top_media_type.raises
               \/ top_location.raises
            THEN SummaryFailure
            ELSE [kind |-> "facts",
                  top_platform |-> top_platform,
                  top_media_type |-> top_media_type.value,
                  dominant_sentiment |-> dominant_sentiment.value,
                  top_location |-> top_location.value]

(***************************************************************************)
(* The sidebar, lines 131-183.                                             *)
(***************************************************************************)
\* the values of a column: Series.unique()
unique(df, c) == {df.rows[i][c] : i \in 1..Len(df.rows)}

\* ['All'] + sorted(df[c].unique().tolist()) raises KeyError when the frame
\* has no column c, and TypeError when sorted() has to compare the missing
\* value (a float) with a str
options_raise(df, c) ==
    \/ c \notin df.columns
    \/ NaN \in unique(df, c) /\ unique(df, c) # {NaN}

options(df, c) == {"All"} \cup unique(df, c)

\* df['Date'].min().date() and .max().date(); NaT on a frame with no row
min_date(df) ==
    IF df.rows = <<>> THEN NaT
    ELSE dt_date(CHOOSE t \in unique(df, "Date") :
                     \A u \in unique(df, "Date") : t <= u)

max_date(df) ==
    IF df.rows = <<>> THEN NaT
    ELSE dt_date(CHOOSE t \in unique(df, "Date") :
                     \A u \in unique(df, "Date") : t >= u)

\* what st.date_input can return: no, one or two days of [min, max]
date_ranges(df) ==
    LET days == min_date(df)..max_date(df) IN
    {<<>>} \cup {<<d>> : d \in days}
           \cup {p \in days \X days : p[1] <= p[2]}

\* the widgets before the script has drawn them
NoWidgets ==
    [rendered |-> FALSE, platform |-> "All", sentiment |-> "All",
     media_type |-> "All", location |-> "All", date_range |-> <<>>]

\* the values the widgets take when first drawn: index 0, (min, max)
default_widgets(df) ==
    [rendered |-> TRUE, platform |-> "All", sentiment |-> "All",
     media_type |-> "All", location |-> "All",
     date_range |-> <<min_date(df), max_date(df)>>]

\* df[df[c] == selected] unless selected is 'All', lines 169-176
filter_facet(rows, c, selected) ==
    IF selected # "All"
    THEN SelectSeq(rows, LAMBDA r : eq(r[c], selected))
    ELSE rows

\* comparisons with NaT are False
date_ge(a, b) == a # NaT /\ b # NaT /\ a >= b
date_le(a, b) == a # NaT /\ b # NaT /\ a <= b

\* (a variant of filter_dates that compares the timestamps, not their days)
filter_dates_timestamp(rows, date_range) ==
    IF Len(date_range) = 2
    THEN SelectSeq(rows, LAMBDA r :
             /\ date_ge(r["Date"], 2 * date_range[1])
             /\ date_le(r["Date"], 2 * date_range[2]))
    ELSE rows

\* lines 178-183
filter_dates(rows, date_range) ==
    IF Len(date_range) = 2
    THEN SelectSeq(rows, LAMBDA r :
             /\ date_ge(dt_date(r["Date"]), date_range[1])
             /\ date_le(dt_date(r["Date"]), date_range[2]))
    ELSE rows

\* lines 168-183
apply_filters(df, w) ==
    LET f1 == filter_facet(df.rows, "Platform", w.platform)
        f2 == filter_facet(f1, "Sentiment", w.sentiment)
        f3 == filter_facet(f2, "Media Type", w.media_type)
        f4 == filter_facet(f3, "Location", w.location)
    IN Frame(df.columns, filter_dates(f4, w.date_range))

(***************************************************************************)
(* The st.cache_data cache of clean_data, line 67: (file, entry) pairs.    *)
(***************************************************************************)
cache_hit(c, file) == \E p \in c : p[1] = file

\* clean_data(uploaded_file) as the script calls it: the stored entry on a
\* hit (its st.error replayed), the function's result on a miss
cached_clean_data(c, file) ==
    IF cache_hit(c, file)
    THEN (CHOOSE p \in c : p[1] = file)[2]
    ELSE clean_data(file)

\* (a variant of cache_store in which the script narrows the stored frame)
cache_store_shared(c, file, cleaned, view) ==
    {p \in c : p[1] # file}
        \cup {<<file, [cleaned EXCEPT
                          !.value = IF view = EmptyFrame THEN @ ELSE view]>>}

\* the cache after a run.  st.cache_data hands the script a copy of the
\* stored value, and line 168 copies again, so the frame the filters narrow
\* is never the stored one: the entry stays what clean_data returned
cache_store(c, file, cleaned, view) ==
    {p \in c : p[1] # file} \cup {<<file, cleaned>>}

(***************************************************************************)
(* One run of the script, lines 126-243.                                   *)
(*   shown: "error" (line 90), "success" (144), "upload_notice" (187),     *)
(*   "no_match_warning" (189), "dashboard" (191-243), "summary" (196),     *)
(*   "summary_warning" (198), "summary_hint" (200), and "exception" for    *)
(*   the traceback Streamlit prints when the script raises.                *)
(***************************************************************************)
NoCharts ==
    [sentiment_counts |-> <<>>, platform_engagements |-> <<>>,
     media_type_counts |-> <<>>, top_locations |-> <<>>,
     engagement_trend |-> <<>>]

\* lines 215-239
dashboard_charts(df) ==
    [sentiment_counts |-> value_counts(column(df.rows, "Sentiment")),
     platform_engagements |-> sort_desc(groupby_sum(df.rows, "Platform")),
     media_type_counts |-> value_counts(column(df.rows, "Media Type")),
     top_locations |-> nlargest(value_counts(column(df.rows, "Location")), TopN),
     engagement_trend |-> groupby_day_sum(df.rows)]

\* file: the uploader's file; c: the cache; w: the widget state the browser
\* sends; clicked: the button; date_input_raises: whether st.date_input
\* rejects the NaT bounds a frame with no row gives it (the library decides)
RunScript(file, c, w, clicked, date_input_raises) ==
    LET cleaned == cached_clean_data(c, file)
        df == cleaned.value
        errors == IF cleaned.error THEN {"error"} ELSE {}
        Out(wd, view, sh, sm, ch) ==
            [cache |-> cache_store(c, file, cleaned, view),
             widgets |-> wd, df_original |-> df, df_filtered |-> view,
             shown |-> errors \cup sh, summary_text |-> sm, charts |-> ch]
    IN
    IF df.none
    THEN Out(NoWidgets, EmptyFrame, {"upload_notice"}, NoSummary, NoCharts)
    ELSE IF \E col \in CategoricalColumns : options_raise(df, col)
    THEN Out(NoWidgets, EmptyFrame, {"success", "exception"}, NoSummary, NoCharts)
    ELSE IF df.rows = <<>> /\ date_input_raises
    THEN Out(NoWidgets, EmptyFrame, {"success", "exception"}, NoSummary, NoCharts)
    ELSE LET wd == IF w.rendered THEN w ELSE default_widgets(df)
             view == apply_filters(df, wd)
             summary == generate_summary(view)
         IN
         IF view.rows = <<>>
         THEN Out(wd, view, {"success", "no_match_warning"}, NoSummary, NoCharts)
         ELSE IF clicked
         THEN Out(wd, view,
                  {"success", "dashboard",
                   IF summary.kind # "empty" THEN "summary" ELSE "summary_warning"},
                  summary, dashboard_charts(view))
         ELSE Out(wd, view, {"success", "dashboard", "summary_hint"},
                  NoSummary, dashboard_charts(view))

\* the state a run leaves
Apply(out) ==
    /\ cache' = out.cache
    /\ widgets' = out.widgets
    /\ df_original' = out.df_original
    /\ df_filtered' = out.df_filtered
    /\ shown' = out.shown
    /\ summary_text' = out.summary_text
    /\ charts' = out.charts

(***************************************************************************)
(* The files of the scenarios.                                             *)
(***************************************************************************)
MakeRow(d, p, e, s, m, l) ==
    [c \in RequiredColumns |->
        CASE c = "Date" -> d
          [] c = "Platform" -> p
          [] c = "Engagements" -> e
          [] c = "Sentiment" -> s
          [] c = "Media Type" -> m
          [] c = "Location" -> l]

BaseRow == MakeRow("2024-01-01 00:00", "Instagram", "10", "Positive", "Video", "Jakarta")

\* a file with this header: each line has the cells of the header's columns
MakeFile(utf8, header, rows) ==
    File(utf8, header,
         [i \in 1..Len(rows) |-> [c \in header |-> rows[i][c]]])

\* the full header, and the headers that lack one required column
Headers == {RequiredColumns} \cup {RequiredColumns \ {c} : c \in RequiredColumns}

\* cleaning: every date text with every engagements text
CleanRows ==
    {[BaseRow EXCEPT !["Date"] = d, !["Engagements"] = e] :
        d \in {"2024-01-01 00:00", "2024-01-02 00:00", "not-a-date", ""},
        e \in {"10", "-5", "3.7", "abc", "", "inf"}}

\* files no dataset or no dashboard comes from
BrokenFiles ==
    {MakeFile(FALSE, RequiredColumns, <<BaseRow>>)}
        \cup {MakeFile(TRUE, h, <<BaseRow>>) : h \in Headers \ {RequiredColumns}}
        \cup {MakeFile(TRUE, RequiredColumns,
                       <<BaseRow, [BaseRow EXCEPT !["Platform"] = ""]>>)}

\* filtering: the day (one with a time of day), platform and sentiment vary
FilterRows ==
    {[BaseRow EXCEPT !["Date"] = d, !["Platform"] = p, !["Sentiment"] = s] :
        d \in {"2024-01-01 18:30", "2024-01-02 00:00"},
        p \in {"Facebook", "Instagram"},
        s \in {"Negative", "Positive"}}

\* aggregation: the categorical values vary, and whole columns may be empty
AggRows ==
    {MakeRow("2024-01-01 00:00", t[1], IF t[1] = "Facebook" THEN "10" ELSE "7",
             t[2], t[3], t[4]) :
        t \in {"Facebook", "Instagram"} \X {"Negative", "Positive"}
                \X {"Image", "Video"} \X {"Berlin", "Jakarta"}}

BlankColumns(rows, blank) ==
    [i \in 1..Len(rows) |->
        [c \in RequiredColumns |-> IF c \in blank THEN "" ELSE rows[i][c]]]

\* top locations: six locations; the location names being interchangeable
\* for counting, a file introduces them in the order of TopLocationNames
TopLocationNames == <<"Lima", "Berlin", "Paris", "Jakarta", "Oslo", "Lagos">>

MaxOf(s) == IF s = <<>> THEN 0 ELSE CHOOSE m \in 1..Len(TopLocationNames) :
                /\ \E i \in 1..Len(s) : s[i] = m
                /\ \A i \in 1..Len(s) : s[i] <= m

RECURSIVE growth(_)
growth(n) ==
    IF n = 0 THEN {<<>>}
    ELSE UNION {{Append(s, k) :
                    k \in 1..Min(MaxOf(s) + 1, Len(TopLocationNames))} :
                s \in growth(n - 1)}

TopFile(s) ==
    MakeFile(TRUE, RequiredColumns,
             [i \in 1..Len(s) |->
                 [BaseRow EXCEPT !["Location"] = TopLocationNames[s[i]]]])

(***************************************************************************)
(* The machine.                                                            *)
(***************************************************************************)
\* the first run of a session: no file in the uploader, nothing cached
Init ==
    LET out == RunScript(NoFile, {}, NoWidgets, FALSE, FALSE) IN
    /\ uploaded_file = NoFile
    /\ cache = out.cache
    /\ widgets = out.widgets
    /\ df_original = out.df_original
    /\ df_filtered = out.df_filtered
    /\ shown = out.shown
    /\ summary_text = out.summary_text
    /\ charts = out.charts

\* the user puts a file in the uploader, line 134, and the script runs
UploadFile(f) ==
    \E raises \in BOOLEAN :
        /\ uploaded_file' = f
        /\ Apply(RunScript(f, cache, NoWidgets, FALSE, raises))

\* a run on changed widgets; the button is not pressed in it
Rerun(w) ==
    /\ UNCHANGED uploaded_file
    /\ Apply(RunScript(uploaded_file, cache, w, FALSE, FALSE))

\* filtering scenarios: a well-formed file of up to MaxRows lines of
\* FilterRows, or a broken file
Upload ==
    /\ uploaded_file = NoFile
    /\ \/ \E n \in 0..MaxRows : \E rows \in [1..n -> FilterRows] :
             UploadFile(MakeFile(TRUE, RequiredColumns, rows))
       \/ \E f \in BrokenFiles : UploadFile(f)

\* lines 156-159
SelectPlatform ==
    /\ widgets.rendered
    /\ \E v \in options(df_original, "Platform") :
          v # widgets.platform /\ Rerun([widgets EXCEPT !.platform = v])

SelectSentiment ==
    /\ widgets.rendered
    /\ \E v \in options(df_original, "Sentiment") :
          v # widgets.sentiment /\ Rerun([widgets EXCEPT !.sentiment = v])

SelectMediaType ==
    /\ widgets.rendered
    /\ \E v \in options(df_original, "Media Type") :
          v # widgets.media_type /\ Rerun([widgets EXCEPT !.media_type = v])

SelectLocation ==
    /\ widgets.rendered
    /\ \E v \in options(df_original, "Location") :
          v # widgets.location /\ Rerun([widgets EXCEPT !.location = v])

\* lines 161-166
ChangeDateRange ==
    /\ widgets.rendered
    /\ \E r \in date_ranges(df_original) :
          r # widgets.date_range /\ Rerun([widgets EXCEPT !.date_range = r])

\* line 193: the button exists only in the dashboard branch
ClickButton ==
    /\ "dashboard" \in shown
    /\ UNCHANGED uploaded_file
    /\ Apply(RunScript(uploaded_file, cache, widgets, TRUE, FALSE))

Next ==
    \/ Upload
    \/ SelectPlatform
    \/ SelectSentiment
    \/ SelectMediaType
    \/ SelectLocation
    \/ ChangeDateRange
    \/ ClickButton

Spec == Init /\ [][Next]_vars

\* cleaning scenarios: uploads only
\* any header with bytes that decode, or the full header with bytes that do
\* not, over up to MaxCleanRows lines of CleanRows
UploadClean ==
    /\ uploaded_file = NoFile
    /\ \E n \in 0..MaxCleanRows : \E rows \in [1..n -> CleanRows] :
          \E h \in Headers, utf8 \in BOOLEAN :
              /\ utf8 \/ h = RequiredColumns
              /\ UploadFile(MakeFile(utf8, h, rows))

NextClean == UploadClean

SpecClean == Init /\ [][NextClean]_vars

\* aggregation scenarios: uploads and the summary button
\* up to MaxAggRows lines of AggRows, any set of categorical columns empty
UploadAgg ==
    /\ uploaded_file = NoFile
    /\ \E n \in 0..MaxAggRows : \E rows \in [1..n -> AggRows] :
          \E blank \in SUBSET CategoricalColumns :
              UploadFile(MakeFile(TRUE, RequiredColumns, BlankColumns(rows, blank)))

ClickButtonAgg == ClickButton

NextAgg == UploadAgg \/ ClickButtonAgg

SpecAgg == Init /\ [][NextAgg]_vars

\* top-locations scenarios: uploads only
\* up to MaxTopRows lines
UploadTop ==
    /\ uploaded_file = NoFile
    /\ \E n \in 0..MaxTopRows : \E s \in growth(n) : UploadFile(TopFile(s))

NextTop == UploadTop

SpecTop == Init /\ [][NextTop]_vars

(***************************************************************************)
(* The claims.                                                             *)
(***************************************************************************)
\* the file in the uploader decodes and has the six required columns
WellFormed == uploaded_file.utf8 /\ RequiredColumns \subseteq uploaded_file.header

\* the positions (1-based) of the lines of the uploaded file whose Date parses
DatedLines ==
    LET raw == read_csv(uploaded_file).rows IN
    SelectSeq([i \in 1..Len(raw) |-> i],
              LAMBDA i : to_datetime(raw[i]["Date"]) # NaT)

\* C1: for every upload that parses with the required columns, clean_data
\* returns a dataset whose rows are exactly the lines whose Date parses, in
\* their order in the file, with their categorical cells unchanged, and with
\* engagements 0 where the Engagements cell is unparseable or missing; no
\* line is left out because of its Engagements cell.
C1_CleanKeepsDatedRows ==
    (uploaded_file # NoFile /\ WellFormed) =>
        LET raw == read_csv(uploaded_file).rows
            rows == df_original.rows
        IN /\ ~df_original.none
           /\ Len(rows) = Len(DatedLines)
           /\ \A k \in 1..Len(rows) :
                 LET line == raw[DatedLines[k]] IN
                 /\ rows[k]["index"] = line["index"]
                 /\ \A c \in CategoricalColumns : rows[k][c] = line[c]
                 /\ to_numeric(line["Engagements"]).kind = "nan"
                        => rows[k]["Engagements"] = 0

\* C2 as stated: every record of a dataset clean_data returns has a valid
\* date and a non-negative integer engagements value.
C2_EngagementsNonNegative ==
    ~df_original.none =>
        \A k \in 1..Len(df_original.rows) :
            /\ df_original.rows[k]["Date"] # NaT
            /\ df_original.rows[k]["Engagements"] \in Nat

\* C2 as amended: every record of a dataset clean_data returns has a valid
\* date and an integer engagements value, which is the number the
\* Engagements cell holds truncated toward zero (0 for an unparseable or
\* missing cell); it is negative exactly when that number is -1 or less.
C2_EngagementsTruncated ==
    (uploaded_file # NoFile /\ ~df_original.none) =>
        LET raw == read_csv(uploaded_file).rows IN
        \A k \in 1..Len(df_original.rows) :
            LET r == df_original.rows[k]
                x == to_numeric(raw[r["index"] + 1]["Engagements"])
                e == r["Engagements"]
            IN /\ r["Date"] # NaT
               /\ e \in Int
               /\ x.kind = "nan" => e = 0
               /\ (x.kind = "num" /\ x.tenths >= 0) =>
                      (10 * e <= x.tenths /\ x.tenths < 10 * e + 10)
               /\ (x.kind = "num" /\ x.tenths < 0) =>
                      (10 * e - 10 < x.tenths /\ x.tenths <= 10 * e)
               /\ (e < 0) <=> (x.kind = "num" /\ x.tenths <= -10)

\* a dataset with a negative and a truncated engagements value
C2_Witness ==
    /\ ~df_original.none
    /\ \E k \in 1..Len(df_original.rows) : df_original.rows[k]["Engagements"] = -5
    /\ \E k \in 1..Len(df_original.rows) : df_original.rows[k]["Engagements"] = 3

\* C3: when the uploaded bytes are not UTF-8 or the header lacks one of the
\* six required columns, the run reports a format error, clean_data returns
\* None, and no later step of the run raises.
C3_FormatErrorNoDataset ==
    (uploaded_file # NoFile /\ ~WellFormed) =>
        /\ "error" \in shown
        /\ df_original.none
        /\ "exception" \notin shown

\* the record satisfies the whole selection
Satisfies(r, w) ==
    /\ w.platform = "All" \/ r["Platform"] = w.platform
    /\ w.sentiment = "All" \/ r["Sentiment"] = w.sentiment
    /\ w.media_type = "All" \/ r["Media Type"] = w.media_type
    /\ w.location = "All" \/ r["Location"] = w.location
    /\ Len(w.date_range) = 2 =>
          /\ w.date_range[1] <= r["Date"] \div 2
          /\ r["Date"] \div 2 <= w.date_range[2]

\* C4: the filtered view is exactly the records of the canonical dataset, in
\* their order, that satisfy every facet of the selection: a categorical
\* facet is "All" or equals the record's field, and a date range with two
\* endpoints contains the record's day (bounds included); a range with
\* fewer endpoints constrains nothing.
C4_FilteredViewExact ==
    widgets.rendered =>
        /\ df_filtered.columns = df_original.columns
        /\ df_filtered.rows =
               SelectSeq(df_original.rows, LAMBDA r : Satisfies(r, widgets))

\* a platform and a one-day range are selected; the view keeps a record of
\* that day with a time of day and leaves another record out
C4_Witness ==
    /\ widgets.rendered
    /\ widgets.platform # "All"
    /\ Len(widgets.date_range) = 2
    /\ widgets.date_range[1] = widgets.date_range[2]
    /\ Len(df_filtered.rows) < Len(df_original.rows)
    /\ \E k \in 1..Len(df_filtered.rows) : df_filtered.rows[k]["Date"] % 2 = 1

\* C5: after every run, the "no rows matched" warning is shown exactly when
\* a canonical dataset exists and the filtered view is empty, the "please
\* upload" notice exactly when no canonical dataset exists, and no two of
\* warning, notice and dashboard are shown together.
C5_NoticesDistinguish ==
    /\ ("no_match_warning" \in shown)
           <=> (~df_original.none /\ df_filtered.rows = <<>>)
    /\ ("upload_notice" \in shown) <=> df_original.none
    /\ Cardinality(shown \cap {"no_match_warning", "upload_notice", "dashboard"}) <= 1

\* C6: the per-platform engagement totals of the dashboard add up to the
\* total engagements of the filtered view.
C6_AggregationConservation ==
    "dashboard" \in shown =>
        SumSeq(column(charts.platform_engagements, "n"))
            = SumSeq(column(df_filtered.rows, "Engagements"))

\* every value of the column is missing in the view
AllMissing(c) == \A k \in 1..Len(df_filtered.rows) : df_filtered.rows[k][c] = NaN

\* C7: a summary asked for on a non-empty view yields the four facts, and a
\* fact whose column holds only missing values is "Tidak Tersedia"; it is
\* never the failure outcome.
C7_SentinelForEmptyField ==
    summary_text.kind # "none" =>
        /\ summary_text.kind = "facts"
        /\ AllMissing("Platform") => summary_text.top_platform = NotAvailable
        /\ AllMissing("Sentiment") => summary_text.dominant_sentiment = NotAvailable
        /\ AllMissing("Media Type") => summary_text.top_media_type = NotAvailable
        /\ AllMissing("Location") => summary_text.top_location = NotAvailable

\* how often the location occurs in the filtered view
LocationCount(v) ==
    Cardinality({k \in 1..Len(df_filtered.rows) : df_filtered.rows[k]["Location"] = v})

\* C8: the top-locations chart has at most 5 entries, each a location of the
\* view with its post count, no location twice; it has every location when
\* the view has fewer than 5; it is in descending order of count; and every
\* location in it has a count at least that of every location left out.
C8_TopLocations ==
    "dashboard" \in shown =>
        LET top == charts.top_locations
            all == {df_filtered.rows[k]["Location"] : k \in 1..Len(df_filtered.rows)} \ {NaN}
            chosen == {top[i].value : i \in 1..Len(top)}
        IN /\ Len(top) <= 5
           /\ chosen \subseteq all
           /\ Cardinality(chosen) = Len(top)
           /\ \A i \in 1..Len(top) : top[i].n = LocationCount(top[i].value)
           /\ Cardinality(all) < 5 => chosen = all
           /\ \A i \in 1..Len(top), j \in 1..Len(top) : i < j => top[i].n >= top[j].n
           /\ \A i \in 1..Len(top) : \A v \in all \ chosen : top[i].n >= LocationCount(v)

\* six locations, one of them twice: five are charted, the one that occurs
\* twice first, and one is left out
C8_Witness ==
    /\ "dashboard" \in shown
    /\ Len(df_filtered.rows) = 7
    /\ Cardinality({df_filtered.rows[k]["Location"] : k \in 1..Len(df_filtered.rows)}) = 6
    /\ Len(charts.top_locations) = 5
    /\ charts.top_locations[1].n = 2

\* the values of the column with the highest count in the filtered view
Tied(c) ==
    LET vals == column(df_filtered.rows, c)
        present == {vals[i] : i \in 1..Len(vals)} \ {NaN}
    IN {v \in present : \A u \in present : CountOf(vals, u) <= CountOf(vals, v)}

\* the position at which the value first occurs in the filtered view
FirstAt(c, v) ==
    CHOOSE i \in 1..Len(df_filtered.rows) :
        /\ df_filtered.rows[i][c] = v
        /\ \A j \in 1..(i - 1) : df_filtered.rows[j][c] # v

FirstTied(c, fact) ==
    /\ fact \in Tied(c)
    /\ \A v \in Tied(c) : FirstAt(c, fact) <= FirstAt(c, v)

SmallestTied(c, fact) ==
    /\ fact \in Tied(c)
    /\ \A v \in Tied(c) : v = fact \/ StrLess(fact, v)

\* C9 as stated: the dominant sentiment, dominant media type and top
\* location of a summary are, among the values tied for the highest count,
\* the one that occurs first in the view.
C9_ModeTieFirstSeen ==
    summary_text.kind = "facts" =>
        /\ FirstTied("Sentiment", summary_text.dominant_sentiment)
        /\ FirstTied("Media Type", summary_text.top_media_type)
        /\ FirstTied("Location", summary_text.top_location)

\* C9 as amended: they are, among the values tied for the highest count,
\* the one that sorts first (the smallest string).
C9_ModeTieSorted ==
    summary_text.kind = "facts" =>
        /\ SmallestTied("Sentiment", summary_text.dominant_sentiment)
        /\ SmallestTied("Media Type", summary_text.top_media_type)
        /\ SmallestTied("Location", summary_text.top_location)

\* two sentiments tie, and the summary names the one the view has second
C9_Witness ==
    /\ summary_text.kind = "facts"
    /\ Cardinality(Tied("Sentiment")) = 2
    /\ df_filtered.rows[1]["Sentiment"] # summary_text.dominant_sentiment

\* C10: through every interaction on an upload, the cached canonical dataset
\* stays what clean_data made of the file, the run's df_original is that
\* dataset, and the filtered view is the filter applied to it with the
\* current selection.
C10_CanonicalUnchanged ==
    uploaded_file # NoFile =>
        LET cleaned == clean_data(uploaded_file) IN
        /\ <<uploaded_file, cleaned>> \in cache
        /\ \A p \in cache : p[1] = uploaded_file => p[2] = cleaned
        /\ df_original = cleaned.value
        /\ widgets.rendered => df_filtered = apply_filters(cleaned.value, widgets)

\* a summary was generated on a view a platform selection had narrowed
C10_Witness ==
    /\ widgets.rendered
    /\ widgets.platform # "All"
    /\ summary_text.kind = "facts"
    /\ Len(df_filtered.rows) < Len(df_original.rows)

====
